---- MODULE Spec2Model ----
(***************************************************************************)
(* Model of rs_py/rs_view_sync_raw_data.py: the index of colour and depth  *)
(* payload files built by get_filepaths / get_filepaths_with_timestamps,   *)
(* and the playback loop of __main__ that aligns the devices' streams on a *)
(* shared watermark (ts_max).                                              *)
(*                                                                         *)
(* A payload file name is the sequence of decimal digits before its        *)
(* extension ("20.bin" is <<2, 0>>).  A file is a record                   *)
(* [dev, sess, sensor, name]: device index, recording-session directory    *)
(* (numbered in sorted order), sensor directory and name.  Every session   *)
(* directory holds a calib file, so get_calib yields every device.         *)
(***************************************************************************)
EXTENDS Integers, Sequences, FiniteSets, TLC

\* ------------------------------------------------------------- bounds
\* single-digit payload names are "1" .. "MaxUnit"; "20" is the one two-digit name
MaxUnit == 3
\* the most payload files a generated recording tree holds
MaxFiles == 6
\* the most iterations of the playback loop that are followed
MaxSteps == 4

Names == {<<d>> : d \in 1..MaxUnit} \cup {<<2, 0>>}
Sensors == {"color", "depth"}
\* sorted(os.listdir(PATH)): the devices, in order
DevList == <<"A", "B">>
\* recording-session directories per device: one device with one or two
\* sessions, or two devices with one session each
Layouts == {<<1>>, <<2>>, <<1, 1>>}

\* the recording tree of the two-device scenario (A: 100/200/300 and
\* 105/205/305, B: 150/250 and 155/255)
ScenarioFiles ==
    {[dev |-> 1, sess |-> 1, sensor |-> "color", name |-> n] :
        n \in {<<1, 0, 0>>, <<2, 0, 0>>, <<3, 0, 0>>}}
    \cup {[dev |-> 1, sess |-> 1, sensor |-> "depth", name |-> n] :
        n \in {<<1, 0, 5>>, <<2, 0, 5>>, <<3, 0, 5>>}}
    \cup {[dev |-> 2, sess |-> 1, sensor |-> "color", name |-> n] :
        n \in {<<1, 5, 0>>, <<2, 5, 0>>}}
    \cup {[dev |-> 2, sess |-> 1, sensor |-> "depth", name |-> n] :
        n \in {<<1, 5, 5>>, <<2, 5, 5>>}}

VARIABLES
    layout,         \* sessions per device of the tree under PATH
    fs,             \* the payload files under PATH
    dev_color_ts,   \* per device: the colour timestamps, in index order
    dev_depth_ts,   \* per device: the depth timestamps, in index order
    num_data,       \* num_data returned by get_filepaths_with_timestamps
    ts_max,         \* the watermark
    counter_color,  \* per device: where the colour scan starts
    counter_depth,  \* per device: where the depth scan starts
    pc,             \* "start", "loop" or "exited"
    ended,          \* the exception that ended the program, "none" before
    exit_code,      \* the process's exit status, -1 while it runs
    bundles         \* history: the bundles composed and shown so far

vars == <<layout, fs, dev_color_ts, dev_depth_ts, num_data, ts_max,
          counter_color, counter_depth, pc, ended, exit_code, bundles>>

\* ------------------------------------------------------------- helpers
Max2(a, b) == IF a >= b THEN a ELSE b
Min2(a, b) == IF a <= b THEN a ELSE b

\* max() of a non-empty list of integers
MaxOfSeq(s) == CHOOSE m \in {s[i] : i \in 1..Len(s)} :
                  \A i \in 1..Len(s) : s[i] <= m

\* str < str on two digit strings: the first differing digit decides, and a
\* proper prefix is smaller ('.' sorts before every digit, so the extension
\* keeps that order)
RECURSIVE StrLess(_, _)
StrLess(a, b) ==
    IF a = <<>> THEN b # <<>>
    ELSE IF b = <<>> THEN FALSE
    ELSE IF Head(a) # Head(b) THEN Head(a) < Head(b)
    ELSE StrLess(Tail(a), Tail(b))

\* sorted(os.listdir(dir)) of a set of names
RECURSIVE SortNames(_)
SortNames(S) ==
    IF S = {} THEN <<>>
    ELSE LET m == CHOOSE x \in S : \A y \in S \ {x} : StrLess(x, y)
         IN <<m>> \o SortNames(S \ {m})

\* int(name.split('.')[0])
RECURSIVE ParseInt(_)
ParseInt(d) ==
    IF d = <<>> THEN 0
    ELSE 10 * ParseInt(SubSeq(d, 1, Len(d) - 1)) + d[Len(d)]

\* os.listdir of one sensor directory
ListDir(files, i, s, k) ==
    {f.name : f \in {g \in files : g.dev = i /\ g.sess = s /\ g.sensor = k}}

\* get_filepaths, for one device: the sorted listing of every session
\* directory, the sessions in order
RECURSIVE DeviceFiles(_, _, _, _)
DeviceFiles(files, i, nsess, k) ==
    IF nsess = 0 THEN <<>>
    ELSE DeviceFiles(files, i, nsess - 1, k) \o SortNames(ListDir(files, i, nsess, k))

get_filepaths(files, lay, k) ==
    [i \in 1..Len(lay) |-> DeviceFiles(files, i, lay[i], k)]

\* the keys of a dict filled in the order of s: a key keeps the place of its
\* first insertion
RECURSIVE DictKeys(_)
DictKeys(s) ==
    IF s = <<>> THEN <<>>
    ELSE LET front == DictKeys(SubSeq(s, 1, Len(s) - 1))
             last == s[Len(s)]
         IN IF \E j \in 1..Len(front) : front[j] = last
            THEN front ELSE Append(front, last)

\* the number of tuples zip() yields: the length of its shortest argument
RECURSIVE MinLen(_)
MinLen(ss) ==
    IF Len(ss) = 1 THEN Len(ss[1])
    ELSE Min2(Len(ss[1]), MinLen(Tail(ss)))

NumData(files, lay) == Len(get_filepaths(files, lay, "color")[1])

\* variant of ZipLen: the last tuple is dropped
ZipLenOneShort(files, lay) ==
    Max2(0, Min2(NumData(files, lay),
                 Min2(MinLen(get_filepaths(files, lay, "color")),
                      MinLen(get_filepaths(files, lay, "depth")))) - 1)

\* lines 41-56: the tuples of the zip over the devices' lists
ZipLen(files, lay) ==
    Min2(NumData(files, lay),
         Min2(MinLen(get_filepaths(files, lay, "color")),
              MinLen(get_filepaths(files, lay, "depth"))))

\* get_filepaths_with_timestamps followed by the key lists of __main__: per
\* device, the keys of color_dict / depth_dict
TsIndex(files, lay, k) ==
    [i \in 1..Len(lay) |->
        DictKeys([j \in 1..ZipLen(files, lay) |->
                     ParseInt(get_filepaths(files, lay, k)[i][j])])]

FirstKeys(idx) == [i \in 1..Len(idx) |-> idx[i][1]]

\* variants of InitialTsMax: the depth streams forgotten; min() for the outer max()
InitialTsMaxColorOnly(cidx, didx) == MaxOfSeq(FirstKeys(cidx))
InitialTsMaxOuterMin(cidx, didx) ==
    Min2(MaxOfSeq(FirstKeys(cidx)), MaxOfSeq(FirstKeys(didx)))

\* lines 83-85: ts_max before the loop
InitialTsMax(cidx, didx) ==
    Max2(MaxOfSeq(FirstKeys(cidx)), MaxOfSeq(FirstKeys(didx)))

\* ------------------------------------------------------------- the program
Devs == 1..Len(layout)

AllFiles(lay) ==
    {[dev |-> i, sess |-> s, sensor |-> k, name |-> n] :
        i \in 1..Len(lay), s \in 1..2, k \in Sensors, n \in Names}

Init ==
    /\ \/ /\ layout \in Layouts
          /\ fs \in {S \in SUBSET {f \in AllFiles(layout) : f.sess <= layout[f.dev]} :
                        Cardinality(S) <= MaxFiles}
       \/ /\ layout = <<1, 1>>
          /\ fs = ScenarioFiles
    /\ dev_color_ts = <<>>
    /\ dev_depth_ts = <<>>
    /\ num_data = 0
    /\ ts_max = 0
    /\ counter_color = <<>>
    /\ counter_depth = <<>>
    /\ pc = "start"
    /\ ended = "none"
    /\ exit_code = -1
    /\ bundles = <<>>

\* exit(1) of the except clause
ExceptExit == 1
\* exit(0) of the finally clause
FinallyExit == 0

\* variant of UncaughtExit: the setup of lines 77-88 moved inside the try
SetupInsideTryExit == FinallyExit
\* exit status of an exception that nothing catches (line 83 is outside the try)
UncaughtExit == 1

\* variant of LoopExitStatus: no finally clause
LoopExitStatusOfExcept == ExceptExit
\* the exit status after an exception inside the try: the SystemExit raised in
\* the finally clause replaces the one raised in the except clause
LoopExitStatus == FinallyExit

\* lines 77-83 with an empty index: list(i.keys())[0] raises IndexError
BuildFail ==
    /\ pc = "start"
    /\ ZipLen(fs, layout) = 0
    /\ dev_color_ts' = TsIndex(fs, layout, "color")
    /\ dev_depth_ts' = TsIndex(fs, layout, "depth")
    /\ num_data' = NumData(fs, layout)
    /\ pc' = "exited"
    /\ ended' = "IndexError"
    /\ exit_code' = UncaughtExit
    /\ UNCHANGED <<layout, fs, ts_max, counter_color, counter_depth, bundles>>

\* lines 77-88
Build ==
    /\ pc = "start"
    /\ ZipLen(fs, layout) > 0
    /\ dev_color_ts' = TsIndex(fs, layout, "color")
    /\ dev_depth_ts' = TsIndex(fs, layout, "depth")
    /\ num_data' = NumData(fs, layout)
    /\ ts_max' = InitialTsMax(TsIndex(fs, layout, "color"), TsIndex(fs, layout, "depth"))
    /\ counter_color' = [i \in 1..Len(layout) |-> 0]
    /\ counter_depth' = [i \in 1..Len(layout) |-> 0]
    /\ pc' = "loop"
    /\ UNCHANGED <<layout, fs, ended, exit_code, bundles>>

\* variant of FirstAtLeast: > for >=
FirstAtLeastStrict(seq, cnt, w) ==
    LET C == {j \in (cnt + 1)..Len(seq) : seq[j] > w}
    IN IF C = {} THEN 0 ELSE CHOOSE j \in C : \A h \in C : j <= h

\* next(x for x in enumerate(seq[cnt:]) if x[1] >= w): the place in seq of the
\* first element after the first cnt that is >= w, 0 when there is none
\* (next raises StopIteration)
FirstAtLeast(seq, cnt, w) ==
    LET C == {j \in (cnt + 1)..Len(seq) : seq[j] >= w}
    IN IF C = {} THEN 0 ELSE CHOOSE j \in C : \A h \in C : j <= h

\* the timestamp at a chosen place
TsAt(seq, j) == IF j \in 1..Len(seq) THEN seq[j] ELSE -1

\* lines 95-107: the places chosen for every device
Selection(w) ==
    [i \in Devs |->
        [color |-> FirstAtLeast(dev_color_ts[i], counter_color[i], w),
         depth |-> FirstAtLeast(dev_depth_ts[i], counter_depth[i], w)]]

\* variant of StopIteration: only the colour scan can end the loop
StopIterationColorOnly(sel) == \E i \in DOMAIN sel : sel[i].color = 0

\* some next() of lines 96-106 raises
StopIteration(sel) == \E i \in DOMAIN sel : sel[i].color = 0 \/ sel[i].depth = 0

\* line 108
NewTsMax(sel) ==
    MaxOfSeq([i \in DOMAIN sel |-> TsAt(dev_color_ts[i], sel[i].color)]
             \o [i \in DOMAIN sel |-> TsAt(dev_depth_ts[i], sel[i].depth)])

\* one iteration whose scan finds no candidate in some stream: StopIteration
\* is caught by the except clause and the program exits
StepStop ==
    /\ pc = "loop"
    /\ StopIteration(Selection(ts_max))
    /\ pc' = "exited"
    /\ ended' = "StopIteration"
    /\ exit_code' = LoopExitStatus
    /\ UNCHANGED <<layout, fs, dev_color_ts, dev_depth_ts, num_data, ts_max,
                   counter_color, counter_depth, bundles>>

\* one iteration that selects, composes and shows a bundle (lines 93-155);
\* counter_color and counter_depth are not assigned
StepShow ==
    /\ pc = "loop"
    /\ Len(bundles) < MaxSteps
    /\ ~StopIteration(Selection(ts_max))
    /\ ts_max' = NewTsMax(Selection(ts_max))
    /\ bundles' = Append(bundles, [wm |-> ts_max, sel |-> Selection(ts_max),
                                   ts_max |-> NewTsMax(Selection(ts_max))])
    /\ UNCHANGED <<layout, fs, dev_color_ts, dev_depth_ts, num_data,
                   counter_color, counter_depth, pc, ended, exit_code>>

\* one iteration that selects (line 108 assigns ts_max) and then fails to read
\* or reshape a payload or the calibration record (lines 116-137)
StepDecodeError ==
    /\ pc = "loop"
    /\ ~StopIteration(Selection(ts_max))
    /\ ts_max' = NewTsMax(Selection(ts_max))
    /\ pc' = "exited"
    /\ ended' = "DecodeError"
    /\ exit_code' = LoopExitStatus
    /\ UNCHANGED <<layout, fs, dev_color_ts, dev_depth_ts, num_data,
                   counter_color, counter_depth, bundles>>

Next == BuildFail \/ Build \/ StepStop \/ StepShow \/ StepDecodeError

Spec == Init /\ [][Next]_vars

\* "while True" starts the next scan whenever the last iteration came to its
\* end
FairSpec ==
    /\ Spec
    /\ WF_vars(StepStop \/ StepShow)

\* ------------------------------------------------------------- properties
Streams == Devs \X Sensors

\* the timestamp sequence of one (device, stream kind)
SeqOf(i, k) == IF k = "color" THEN dev_color_ts[i] ELSE dev_depth_ts[i]

\* the place / the timestamp a bundle chose in one stream
ChosenAt(b, i, k) == IF k = "color" THEN b.sel[i].color ELSE b.sel[i].depth
ChosenTs(b, i, k) == TsAt(SeqOf(i, k), ChosenAt(b, i, k))

\* the index was built and is not empty
Built == pc # "start" /\ ended # "IndexError"

\* alignment steps taken so far: one per bundle shown, one for a step that
\* ended the loop
StepsTaken == Len(bundles) + (IF ended \in {"StopIteration", "DecodeError"} THEN 1 ELSE 0)

RECURSIVE SumLen(_)
SumLen(ss) == IF ss = <<>> THEN 0 ELSE Len(Head(ss)) + SumLen(Tail(ss))

\* C1: no locator of any (device, stream kind) sequence is chosen in more
\* than one emitted bundle.
NoReEmission ==
    \A m, n \in 1..Len(bundles) : \A st \in Streams :
        m < n => ChosenAt(bundles[m], st[1], st[2]) # ChosenAt(bundles[n], st[1], st[2])

\* C2: the loop ends after at most as many alignment steps as the sequences
\* hold locators, and a step in which no stream advances is not repeated.
TerminationBound ==
    Built =>
        /\ StepsTaken <= SumLen(dev_color_ts) + SumLen(dev_depth_ts)
        /\ \A n \in 2..Len(bundles) : bundles[n].sel # bundles[n - 1].sel

\* C3: the watermark never decreases over the steps, and it is strictly
\* greater than before after a step in which some stream's selection differs
\* from its selection in the previous step.
MonotonicWatermark ==
    \A n \in 1..Len(bundles) :
        /\ bundles[n].ts_max >= bundles[n].wm
        /\ n > 1 => bundles[n].wm = bundles[n - 1].ts_max
        /\ (n > 1 /\ bundles[n].sel # bundles[n - 1].sel)
              => bundles[n].ts_max > bundles[n].wm

\* C4: every timestamp chosen in a bundle is the least timestamp of its whole
\* sequence that is >= the watermark in force when the step began.
SelectionCorrectness ==
    \A n \in 1..Len(bundles) : \A st \in Streams :
        LET seq == SeqOf(st[1], st[2])
            t == ChosenTs(bundles[n], st[1], st[2])
        IN /\ t >= bundles[n].wm
           /\ \E j \in 1..Len(seq) : seq[j] = t
           /\ \A j \in 1..Len(seq) : seq[j] >= bundles[n].wm => t <= seq[j]

\* C5: in the two-device scenario the initial watermark is 155; the first
\* step chooses 200/205 for A and 250 for B's colour, and for B's depth 155
\* (the first depth timestamp >= 155), so the watermark becomes 250; the second
\* step shows no bundle and ends the loop by exhaustion.
ScenarioRun ==
    fs = ScenarioFiles =>
        /\ (pc = "loop" /\ bundles = <<>>) => ts_max = 155
        /\ Len(bundles) >= 1 =>
              /\ bundles[1].wm = 155
              /\ ChosenTs(bundles[1], 1, "color") = 200
              /\ ChosenTs(bundles[1], 1, "depth") = 205
              /\ ChosenTs(bundles[1], 2, "color") = 250
              /\ ChosenTs(bundles[1], 2, "depth") = 155
              /\ bundles[1].ts_max = 250
              /\ pc = "loop" => ts_max = 250
              /\ pc = "exited" => ended = "StopIteration"
        /\ Len(bundles) <= 1

\* C5 as stated: B's depth selection is 255 and the watermark becomes 255
ScenarioRunAsStated ==
    fs = ScenarioFiles =>
        /\ (pc = "loop" /\ bundles = <<>>) => ts_max = 155
        /\ Len(bundles) >= 1 =>
              /\ bundles[1].wm = 155
              /\ ChosenTs(bundles[1], 1, "color") = 200
              /\ ChosenTs(bundles[1], 1, "depth") = 205
              /\ ChosenTs(bundles[1], 2, "color") = 250
              /\ ChosenTs(bundles[1], 2, "depth") = 255
              /\ bundles[1].ts_max = 255
              /\ pc = "loop" => ts_max = 255
              /\ pc = "exited" => ended = "StopIteration"
        /\ Len(bundles) <= 1

ScenarioRunWitness ==
    /\ fs = ScenarioFiles
    /\ Len(bundles) = 1
    /\ pc = "exited"
    /\ ended = "StopIteration"

\* C6: one device whose colour and depth sequences hold one locator each, with
\* the same timestamp: exactly one step shows a bundle and the next ends the
\* loop by exhaustion.
SinglePair ==
    (/\ Built
     /\ Len(layout) = 1
     /\ Len(dev_color_ts[1]) = 1
     /\ dev_depth_ts[1] = dev_color_ts[1])
    => /\ Len(bundles) <= 1
       /\ pc = "exited" => (ended = "StopIteration" => Len(bundles) = 1)

\* C7: before the first step the watermark is the greatest of the sequences'
\* first timestamps: it is the first timestamp of some sequence and no
\* sequence starts later.
InitialWatermark ==
    (pc = "loop" /\ bundles = <<>>) =>
        /\ \A st \in Streams : ts_max >= SeqOf(st[1], st[2])[1]
        /\ \E st \in Streams : ts_max = SeqOf(st[1], st[2])[1]

InitialWatermarkWitness ==
    /\ pc = "loop"
    /\ bundles = <<>>
    /\ Len(layout) = 2
    /\ ts_max = dev_depth_ts[2][1]
    /\ \A i \in Devs : dev_color_ts[i][1] < ts_max
    /\ dev_depth_ts[1][1] < ts_max

\* some (device, stream kind) sequence holds no timestamp >= w
SomeStreamBelow(w) ==
    \E st \in Streams :
        \A j \in 1..Len(SeqOf(st[1], st[2])) : SeqOf(st[1], st[2])[j] < w

\* a bundle holds one colour and one depth locator for every device
CompleteBundle(b) ==
    /\ DOMAIN b.sel = Devs
    /\ \A st \in Streams : ChosenAt(b, st[1], st[2]) \in 1..Len(SeqOf(st[1], st[2]))

\* C8: a step shows at most one bundle, and that bundle holds a colour and a
\* depth selection for every device; a step taken while some sequence holds no
\* timestamp >= the watermark shows no bundle and ends the loop.
AllOrNothing ==
    [][pc = "loop" =>
          /\ bundles' # bundles =>
                /\ Len(bundles') = Len(bundles) + 1
                /\ SubSeq(bundles', 1, Len(bundles)) = bundles
                /\ CompleteBundle(bundles'[Len(bundles')])
          /\ SomeStreamBelow(ts_max) => (bundles' = bundles /\ pc' = "exited")]_vars

\* two devices, a bundle was shown, then one device ran out while the other
\* still had a colour and a depth candidate
AllOrNothingWitness ==
    /\ Built
    /\ Len(layout) = 2
    /\ Len(bundles) >= 1
    /\ ended = "StopIteration"
    /\ \E i \in Devs :
          /\ \E j \in 1..Len(dev_color_ts[i]) : dev_color_ts[i][j] >= ts_max
          /\ \E j \in 1..Len(dev_depth_ts[i]) : dev_depth_ts[i][j] >= ts_max

\* the watermark computed at session start, from the built index
FirstWatermark ==
    CHOOSE w \in {SeqOf(st[1], st[2])[1] : st \in Streams} :
        \A st \in Streams : SeqOf(st[1], st[2])[1] <= w

\* C9: when the initial watermark is greater than the last timestamp of some
\* sequence, the first step ends the loop by exhaustion and no bundle is shown.
ZeroLength ==
    (/\ Built
     /\ \E st \in Streams :
           FirstWatermark > SeqOf(st[1], st[2])[Len(SeqOf(st[1], st[2]))])
    => /\ bundles = <<>>
       /\ pc = "exited" => ended = "StopIteration"

EmptyStream ==
    \E i \in Devs : \E k \in Sensors :
        ~\E f \in fs : f.dev = i /\ f.sensor = k

\* C11: when some device's colour or depth stream is empty, the program fails
\* with an error (IndexError, exit status 1) before any alignment step: no
\* watermark is computed, no bundle is shown, and no stream keeps an index
\* entry.
EmptyStreamFails ==
    (pc # "start" /\ EmptyStream) =>
        /\ pc = "exited"
        /\ ended = "IndexError"
        /\ exit_code = 1
        /\ ts_max = 0
        /\ bundles = <<>>
        /\ \A st \in Streams : SeqOf(st[1], st[2]) = <<>>

\* two devices, one stream empty while every other stream holds files
EmptyStreamFailsWitness ==
    /\ pc = "exited"
    /\ Len(layout) = 2
    /\ ~\E f \in fs : f.dev = 2 /\ f.sensor = "depth"
    /\ \E f \in fs : f.dev = 2 /\ f.sensor = "color"
    /\ \A k \in Sensors : \E f \in fs : f.dev = 1 /\ f.sensor = k

\* C12: every timestamp sequence handed to the loop is ascending by the
\* integer timestamp parsed from the file names.
IndexAscending ==
    Built =>
        \A st \in Streams :
            \A a, b \in 1..Len(SeqOf(st[1], st[2])) :
                a < b => SeqOf(st[1], st[2])[a] < SeqOf(st[1], st[2])[b]

\* C13: after a step that shows a bundle the cursor of every stream is the
\* index of the chosen locator plus one (its place, counted from 1), so it is
\* greater than before the step.
CursorAdvance ==
    (pc = "loop" /\ bundles # <<>>) =>
        \A i \in Devs :
            /\ counter_color[i] = ChosenAt(bundles[Len(bundles)], i, "color")
            /\ counter_depth[i] = ChosenAt(bundles[Len(bundles)], i, "depth")
            /\ counter_color[i] > 0
            /\ counter_depth[i] > 0

\* every sequence of the index is ascending
AscendingIndex ==
    \A st \in Streams :
        \A a, b \in 1..Len(SeqOf(st[1], st[2])) :
            a < b => SeqOf(st[1], st[2])[a] < SeqOf(st[1], st[2])[b]

\* w is a timestamp of every device's colour and depth sequence
CommonTs(w) ==
    \A st \in Streams :
        \E j \in 1..Len(SeqOf(st[1], st[2])) : SeqOf(st[1], st[2])[j] = w

\* the safety half of C14
FixedPointShape ==
    (Built /\ AscendingIndex) =>
        /\ \A n \in 1..Len(bundles) :
              /\ (bundles[n].ts_max = bundles[n].wm) <=> CommonTs(bundles[n].wm)
              /\ CommonTs(bundles[n].wm) =>
                    /\ \A m \in n..Len(bundles) : bundles[m].sel = bundles[n].sel
                    /\ ended # "StopIteration"
        /\ ended = "StopIteration" => ~CommonTs(ts_max)

\* C14: with ascending sequences, a step leaves the watermark unchanged exactly
\* when the watermark is a timestamp of every colour and depth sequence; from
\* then on every iteration selects the same bundle and the loop never ends by
\* exhaustion.  Every session whose payloads can be read either reaches such a
\* watermark or ends by exhaustion.
FixedPointLaw ==
    /\ []FixedPointShape
    /\ (Built /\ AscendingIndex /\ pc = "loop")
          ~> \/ ended \in {"StopIteration", "DecodeError"}
             \/ (pc = "loop" /\ CommonTs(ts_max))

\* the watermark moved in the first step and stayed in the second
FixedPointLawWitness ==
    /\ Built
    /\ AscendingIndex
    /\ Len(bundles) >= 3
    /\ bundles[1].ts_max > bundles[1].wm
    /\ bundles[2].ts_max = bundles[2].wm
    /\ bundles[2].sel # bundles[1].sel
    /\ bundles[3].sel = bundles[2].sel

\* the number of payload files of one (device, stream kind), over its sessions
FileCount(i, k) == Cardinality({f \in fs : f.dev = i /\ f.sensor = k})

\* the least file count over every device's colour and depth listing
MinFileCount ==
    CHOOSE c \in {FileCount(st[1], st[2]) : st \in Streams} :
        \A st \in Streams : c <= FileCount(st[1], st[2])

\* no stream holds the same timestamp twice (a name without leading zeros
\* determines its timestamp)
DistinctTs ==
    \A f, g \in fs :
        (f # g /\ f.dev = g.dev /\ f.sensor = g.sensor) => f.name # g.name

\* C15: given distinct timestamps per stream, every colour and depth index
\* holds as many entries as the shortest listing holds files; they are the
\* timestamps of the first files of the stream's listing, so a file beyond
\* that count is not indexed and no bundle selects it.
IndexTruncation ==
    (pc # "start" /\ DistinctTs) =>
        /\ \A st \in Streams :
              /\ Len(SeqOf(st[1], st[2])) = MinFileCount
              /\ \A j \in 1..Len(SeqOf(st[1], st[2])) :
                    SeqOf(st[1], st[2])[j] =
                        ParseInt(get_filepaths(fs, layout, st[2])[st[1]][j])
        /\ \A n \in 1..Len(bundles) : \A st \in Streams :
              ChosenAt(bundles[n], st[1], st[2]) \in 1..MinFileCount

\* two devices, a stream longer than the shortest one, and a bundle shown
IndexTruncationWitness ==
    /\ Built
    /\ DistinctTs
    /\ Len(layout) = 2
    /\ \E st \in Streams : FileCount(st[1], st[2]) > MinFileCount
    /\ MinFileCount >= 2
    /\ bundles # <<>>
====
